---- MODULE Spec2Model ----
(***************************************************************************)
(* A model of the blog application: the Post and Comment tables, the       *)
(* published manager, the pagination helper, and the request handlers of   *)
(* blog/views.py, each handler one action that leaves its response in the  *)
(* variable resp.                                                          *)
(***************************************************************************)
EXTENDS Integers, Sequences, FiniteSets, TLC

VARIABLES
    posts,      \* the Post table: posts[id] is the row with primary key id
    comments,   \* the Comment table, in creation order: comments[id]
    outbox,     \* the messages handed to the mail transport, in order
    resp,       \* the response to the last request
    request     \* the page parameter of the next list request

vars == <<posts, comments, outbox, resp, request>>

----------------------------------------------------------------------------
(* Bounds of the model. *)

MaxPosts == 2          \* posts created in Spec
MaxWrites == 2         \* comments saved plus messages dispatched in a run
MaxItems == 12         \* published posts of a paginated database
MaxTokenLen == 2       \* characters of a page token
MaxRelPosts == 7       \* posts of a related-posts database
MaxLookupPosts == 2    \* posts created in SpecLookup
MaxSearchPosts == 2    \* posts created in SpecSearch
MaxCount == 2          \* occurrences of a word in a post's title and body
MaxUrlPosts == 2       \* posts created in SpecUrl
MaxThread == 4         \* comments of a database of SpecThread

(* Program constants. *)

ListPerPage == 5       \* Paginator(post_list, 5)
ServicePerPage == 5    \* paginate_queryset(..., per_page=5)
ViewPaginateBy == 5    \* PostListView.paginate_by
SimilarLimit == 4      \* [:4]
CommentNameMax == 80   \* Comment.name max_length
ShareNameMax == 25     \* EmailPostForm.name max_length
FeedLimit == 5         \* Post.published.all()[:5]
TagCount == 5          \* count=5 of the template tags

----------------------------------------------------------------------------
(* Post.Status *)

DRAFT == "DF"
PUBLISHED == "PB"
Status == {DRAFT, PUBLISHED}

Words == {"django", "python"}

(* A publication_date is <<year, month, day, tick>>: tick is the time of   *)
(* day.  Stamp orders them as datetimes are ordered.                       *)
Stamp(d) == ((d[1] * 13 + d[2]) * 32 + d[3]) * 4 + d[4]

(* timezone.now at the creation of the n-th row: the clock advances        *)
(* between two creations.                                                  *)
Now(n) == <<2024, 1, 1 + (n \div 4), n % 4>>

(* The text of a post (title and body): how often each word occurs.        *)
NoText == [w \in Words |-> 0]

Post(status, slug, date, tags, text) ==
    [status |-> status, slug |-> slug, publication_date |-> date,
     tags |-> tags, text |-> text]

PostIds == DOMAIN posts
CommentIds == DOMAIN comments

Min(a, b) == IF a <= b THEN a ELSE b

----------------------------------------------------------------------------
(* Querysets.  A queryset is evaluated to a sequence of ids; where the     *)
(* ORDER BY leaves two rows tied the database may return them either way,  *)
(* so an ordered query is the SET of sequences it may return.              *)

(* A sort key is a tuple of integers; rows are returned by descending key, *)
(* the first component deciding first.                                     *)
KeyGreater(k1, k2) ==
    \E i \in 1..Len(k1) :
        /\ k1[i] > k2[i]
        /\ \A j \in 1..(i - 1) : k1[j] = k2[j]

(* The rows of S that no other row of S must precede. *)
Firsts(S, key) ==
    LET best == CHOOSE m \in S : \A o \in S : ~KeyGreater(key[o], key[m])
    IN  {m \in S : key[m] = key[best]}

(* The results of ORDER BY key DESC LIMIT k over the rows S. *)
RECURSIVE Ordered(_, _, _)
Ordered(S, key, k) ==
    IF k = 0 \/ S = {} THEN {<<>>}
    ELSE UNION {{<<pick[1]>> \o t : t \in Ordered(pick[2], key, k - 1)} :
                pick \in {<<m, S \ {m}>> : m \in Firsts(S, key)}}

(* Meta.ordering = ['-publication_date'] *)
Newest == [i \in PostIds |-> <<Stamp(posts[i].publication_date)>>]

(* get_queryset without its filter on status. *)
PublishedIdsUnfiltered == PostIds

(* PublishedManager.get_queryset: the rows the published manager selects. *)
PublishedIds == {i \in PostIds : posts[i].status = PUBLISHED}

(* get_by_id_or_404 over the default manager instead of the published one. *)
GetByIdOr404AnyStatus(post_id) == IF post_id \in PostIds THEN post_id ELSE 0

(* PublishedManager.get_by_id_or_404: the row, or 0 for Http404. *)
GetByIdOr404(post_id) == IF post_id \in PublishedIds THEN post_id ELSE 0

(* list(Post.published.all()) *)
PublishedAll == Ordered(PublishedIds, Newest, Cardinality(PublishedIds))

----------------------------------------------------------------------------
(* Responses.  code is the HTTP status; the other fields are the template  *)
(* context of the handler that answered.                                   *)

NoResp ==
    [view |-> "none", code |-> 0, post |-> 0, posts |-> <<>>, number |-> 0,
     comments |-> <<>>, similar |-> <<>>, sent |-> FALSE, comment |-> 0,
     form_valid |-> FALSE, req |-> <<>>, url |-> <<>>]

Http404(view, req) == [NoResp EXCEPT !.view = view, !.code = 404, !.req = req]
Http405(view, req) == [NoResp EXCEPT !.view = view, !.code = 405, !.req = req]
Http500(view, req) == [NoResp EXCEPT !.view = view, !.code = 500, !.req = req]
Http200(view, req) == [NoResp EXCEPT !.view = view, !.code = 200, !.req = req]

----------------------------------------------------------------------------
(* Page tokens.  A query-string value is a sequence of characters; the     *)
(* page parameter of a request is either absent or such a text.            *)

Chars == {"a", "-", "0", "1", "2", "9"}
Digits == {"0", "1", "2", "3", "4", "5", "6", "7", "8", "9"}
DigitVal(c) ==
    CASE c = "0" -> 0 [] c = "1" -> 1 [] c = "2" -> 2 [] c = "3" -> 3
      [] c = "4" -> 4 [] c = "5" -> 5 [] c = "6" -> 6 [] c = "7" -> 7
      [] c = "8" -> 8 [] c = "9" -> 9

ExampleTokens == {<<"a", "b", "c">>, <<"9", "9">>, <<"2">>}
Tokens == UNION {[1..n -> Chars] : n \in 0..MaxTokenLen} \cup ExampleTokens
NoParam == [present |-> FALSE, text |-> <<>>]
PageParams ==
    {NoParam} \cup
    {[present |-> TRUE, text |-> t] : t \in Tokens}

(* Tags that have a row in the Tag table: those some post carries. *)
ExistingTags == UNION {posts[i].tags : i \in DOMAIN posts}

(* The value of a run of digits, most significant first. *)
RECURSIVE DigitsVal(_)
DigitsVal(t) ==
    IF t = <<>> THEN 0
    ELSE 10 * DigitsVal(SubSeq(t, 1, Len(t) - 1)) + DigitVal(t[Len(t)])

AllDigits(t) == t # <<>> /\ \A i \in 1..Len(t) : t[i] \in Digits

(* int(text): ok is FALSE where int raises ValueError. *)
ParseInt(t) ==
    IF AllDigits(t) THEN [ok |-> TRUE, val |-> DigitsVal(t)]
    ELSE IF t # <<>> /\ t[1] = "-" /\ AllDigits(Tail(t))
         THEN [ok |-> TRUE, val |-> 0 - DigitsVal(Tail(t))]
         ELSE [ok |-> FALSE, val |-> 0]

(* request.GET.get('page', 1), then int() of it as Paginator.validate_number *)
(* takes it: the default 1 when the parameter is absent.                    *)
PageNumber(param) ==
    IF param.present THEN ParseInt(param.text) ELSE [ok |-> TRUE, val |-> 1]

----------------------------------------------------------------------------
(* django.core.paginator.Paginator over an evaluated queryset qs.          *)

CeilDiv(a, b) == (a + b - 1) \div b

(* Paginator.num_pages, allow_empty_first_page=True *)
NumPages(qs, per_page) ==
    CeilDiv(IF Len(qs) = 0 THEN 1 ELSE Len(qs), per_page)

(* qs[bottom:top] *)
Slice(qs, bottom, top) == SubSeq(qs, bottom + 1, Min(top, Len(qs)))

(* Paginator.page(number) for a parsed number: a Page, or the exception.   *)
PaginatorPage(qs, per_page, n) ==
    IF ~n.ok THEN [kind |-> "PageNotAnInteger", number |-> 0, items |-> <<>>]
    ELSE IF n.val < 1 \/ n.val > NumPages(qs, per_page)
         THEN [kind |-> "EmptyPage", number |-> 0, items |-> <<>>]
         ELSE [kind |-> "Page", number |-> n.val,
               items |-> Slice(qs, (n.val - 1) * per_page, n.val * per_page)]

IntArg(v) == [ok |-> TRUE, val |-> v]

(* paginate_queryset that answers an out-of-range page with the first one. *)
paginate_queryset_first(param, qs, per_page) ==
    LET posts_ == PaginatorPage(qs, per_page, PageNumber(param)) IN
    IF posts_.kind = "Page" THEN posts_
    ELSE PaginatorPage(qs, per_page, IntArg(1))

(* paginate_queryset that answers a number below 1 with the first page. *)
paginate_queryset_low_first(param, qs, per_page) ==
    LET n == PageNumber(param)
        posts_ == PaginatorPage(qs, per_page, n) IN
    IF posts_.kind = "PageNotAnInteger" \/ (n.ok /\ n.val < 1)
    THEN PaginatorPage(qs, per_page, IntArg(1))
    ELSE IF posts_.kind = "EmptyPage"
         THEN PaginatorPage(qs, per_page, IntArg(NumPages(qs, per_page)))
         ELSE posts_

(* services.paginate_queryset(request, queryset, per_page): the page, its  *)
(* two fallbacks taken where Paginator.page raises.                        *)
paginate_queryset(param, qs, per_page) ==
    LET posts_ == PaginatorPage(qs, per_page, PageNumber(param)) IN
    IF posts_.kind = "PageNotAnInteger"
    THEN PaginatorPage(qs, per_page, IntArg(1))
    ELSE IF posts_.kind = "EmptyPage"
         THEN PaginatorPage(qs, per_page, IntArg(NumPages(qs, per_page)))
         ELSE posts_

(* The same try/except as post_list inlines it, 5 per page. *)
PostListPage(param, qs) ==
    LET posts_ == PaginatorPage(qs, ListPerPage, PageNumber(param)) IN
    IF posts_.kind = "PageNotAnInteger"
    THEN PaginatorPage(qs, ListPerPage, IntArg(1))
    ELSE IF posts_.kind = "EmptyPage"
         THEN PaginatorPage(qs, ListPerPage, IntArg(NumPages(qs, ListPerPage)))
         ELSE posts_

(* MultipleObjectMixin.paginate_queryset of the generic ListView: the page *)
(* parameter defaults to 1 when absent or empty, "last" aside any text     *)
(* that int() rejects is Http404, and so is every InvalidPage.             *)
ListViewPage(param, qs, per_page) ==
    LET n == IF param.present /\ param.text # <<>>
             THEN ParseInt(param.text) ELSE IntArg(1)
    IN  IF ~n.ok THEN [kind |-> "Http404", number |-> 0, items |-> <<>>]
        ELSE LET pg == PaginatorPage(qs, per_page, n) IN
             IF pg.kind = "Page" THEN pg
             ELSE [kind |-> "Http404", number |-> 0, items |-> <<>>]

----------------------------------------------------------------------------
(* Forms.  A text field is modelled by its length after stripping, an      *)
(* email field by its text.                                                *)

IsEmail(e) == e \in {"ann@example.com", "bob@example.com"}

(* CommentForm that lets any email text through. *)
CommentFormValidAnyEmail(f) ==
    /\ f.name >= 1 /\ f.name <= CommentNameMax
    /\ f.body >= 1

(* CommentForm: fields name, email, body of Comment, all required. *)
CommentFormValid(f) ==
    /\ f.name >= 1 /\ f.name <= CommentNameMax
    /\ IsEmail(f.email)
    /\ f.body >= 1

(* EmailPostForm that does not validate the recipient. *)
EmailPostFormValidAnyRecipient(f) ==
    /\ f.name >= 1 /\ f.name <= ShareNameMax
    /\ IsEmail(f.email)

(* EmailPostForm: name, email, to required; comments optional. *)
EmailPostFormValid(f) ==
    /\ f.name >= 1 /\ f.name <= ShareNameMax
    /\ IsEmail(f.email)
    /\ IsEmail(f.to)

(* SearchForm whose query field is not required. *)
SearchFormValidNotRequired(q) == TRUE

(* SearchForm: query is a required CharField; a query text is a sequence   *)
(* of words and blanks, stripped before it is validated.                   *)
Blank == " "
QueryTerms(q) == {q[i] : i \in DOMAIN q} \ {Blank}
SearchFormValid(q) == QueryTerms(q) # {}

----------------------------------------------------------------------------
(* A path is the sequence of its segments, /blog/2024/1/5/s/ the sequence  *)
(* of "blog", the texts 2024, 1 and 5, and the slug; a text is a sequence  *)
(* of characters.                                                          *)

DigitChar(d) ==
    CASE d = 0 -> "0" [] d = 1 -> "1" [] d = 2 -> "2" [] d = 3 -> "3"
      [] d = 4 -> "4" [] d = 5 -> "5" [] d = 6 -> "6" [] d = 7 -> "7"
      [] d = 8 -> "8" [] d = 9 -> "9"

(* str(n) of a natural number, as the int converter of a route writes it. *)
RECURSIVE Str(_)
Str(n) ==
    IF n < 10 THEN <<DigitChar(n)>>
    ELSE Str(n \div 10) \o <<DigitChar(n % 10)>>

(* path('blog/', include('blog.urls', namespace='blog')) *)
BlogPrefix == "blog"

(* get_absolute_url passing day before month to reverse. *)
get_absolute_url_day_first(p) ==
    <<BlogPrefix, Str(posts[p].publication_date[1]),
      Str(posts[p].publication_date[3]), Str(posts[p].publication_date[2]),
      posts[p].slug>>

(* Post.get_absolute_url: reverse('blog:post_detail', [year, month, day,   *)
(* slug]) under the prefix blog/.                                          *)
get_absolute_url(p) ==
    <<BlogPrefix, Str(posts[p].publication_date[1]),
      Str(posts[p].publication_date[2]), Str(posts[p].publication_date[3]),
      posts[p].slug>>

(* send_post_recommendation_email: the message handed to send_mail. *)
RecommendationEmail(p, cd, post_url) ==
    [post |-> p, from_name |-> cd.name, from_email |-> cd.email,
     to |-> cd.to, comments |-> cd.comments, url |-> post_url]

----------------------------------------------------------------------------
(* The queries of post_detail.                                             *)

(* The lookup of post_detail without its filter on status. *)
DetailMatchesAnyStatus(year, month, day, slug) ==
    {i \in PostIds :
        /\ posts[i].slug = slug
        /\ posts[i].publication_date[1] = year
        /\ posts[i].publication_date[2] = month
        /\ posts[i].publication_date[3] = day}

(* get_object_or_404(Post, status=PUBLISHED, slug=..., publication_date    *)
(* __year/__month/__day=...): the matching rows.                           *)
DetailMatches(year, month, day, slug) ==
    {i \in PostIds :
        /\ posts[i].status = PUBLISHED
        /\ posts[i].slug = slug
        /\ posts[i].publication_date[1] = year
        /\ posts[i].publication_date[2] = month
        /\ posts[i].publication_date[3] = day}

(* Comment.Meta.ordering = ['created_at'] *)
Oldest == [c \in CommentIds |-> <<0 - comments[c].created_at>>]

(* post.comments without the filter on is_visible. *)
VisibleCommentsAll(p) ==
    LET S == {c \in CommentIds : comments[c].post = p}
    IN  Ordered(S, Oldest, Cardinality(S))

(* post.comments.filter(is_visible=True) *)
VisibleComments(p) ==
    LET S == {c \in CommentIds : comments[c].post = p /\ comments[c].is_visible}
    IN  Ordered(S, Oldest, Cardinality(S))

(* Count('tags', filter=Q(tags__in=post_tags_ids), distinct=True) *)
SameTags(p, i) == Cardinality(posts[i].tags \cap posts[p].tags)

(* The candidates without .exclude(id=post.id). *)
SimilarCandidatesWithSelf(p) ==
    {i \in PublishedIds : posts[i].tags \cap posts[p].tags # {}}

(* Post.published.filter(tags__in=post_tags_ids).exclude(id=post.id) *)
SimilarCandidates(p) ==
    {i \in PublishedIds : posts[i].tags \cap posts[p].tags # {}} \ {p}

(* .order_by('-same_tags', '-publication_date')[:4] *)
SimilarPosts(p) ==
    LET key == [i \in PostIds |->
                   <<SameTags(p, i), Stamp(posts[i].publication_date)>>]
    IN  Ordered(SimilarCandidates(p), key, SimilarLimit)

----------------------------------------------------------------------------
(* The query of post_search: SearchVector('title', 'body') matched against *)
(* the query, every term of which must occur.                              *)
SearchMatches(q) ==
    {i \in PublishedIds : \A w \in QueryTerms(q) : posts[i].text[w] > 0}

(* The matches in ascending order of publication date. *)
SearchResultsOldestFirst(q) ==
    LET oldest == [i \in PostIds |-> <<0 - Stamp(posts[i].publication_date)>>]
    IN  Ordered(SearchMatches(q), oldest, Cardinality(SearchMatches(q)))

SearchResults(q) == Ordered(SearchMatches(q), Newest, Cardinality(SearchMatches(q)))

----------------------------------------------------------------------------
(* Writes that are not public views.                                       *)

(* Post.objects.create(...), as the fixtures of tests/conftest.py do it.   *)
CreatePost(status, slug, date, tags, text) ==
    /\ posts' = Append(posts, Post(status, slug, date, tags, text))
    /\ resp' = NoResp
    /\ UNCHANGED <<comments, outbox, request>>

(* PostAdmin: the change form saves a post with another status. *)
AdminSetStatus(p, status) ==
    /\ p \in PostIds
    /\ posts[p].status # status
    /\ posts' = [posts EXCEPT ![p].status = status]
    /\ resp' = NoResp
    /\ UNCHANGED <<comments, outbox, request>>

(* unique_for_date='publication_date' on Post.slug, as model validation    *)
(* checks it for a new row: no row has this slug on the day of date.       *)
SlugUniqueForDate(slug, date) ==
    ~\E i \in PostIds :
        /\ posts[i].slug = slug
        /\ posts[i].publication_date[1] = date[1]
        /\ posts[i].publication_date[2] = date[2]
        /\ posts[i].publication_date[3] = date[3]

(* PostAdmin: the add form validates the post and saves it when valid.     *)
AdminAddPost(status, slug, date) ==
    LET req == <<status, slug, date>> IN
    /\ IF SlugUniqueForDate(slug, date)
       THEN /\ posts' = Append(posts, Post(status, slug, date, {}, NoText))
            /\ resp' = [Http200("admin_add_post", req) EXCEPT
                           !.form_valid = TRUE, !.post = Len(posts) + 1]
       ELSE /\ posts' = posts
            /\ resp' = Http200("admin_add_post", req)
    /\ UNCHANGED <<comments, outbox, request>>

(* CommentAdmin: the change form toggles is_visible. *)
AdminSetVisible(c, visible) ==
    /\ c \in CommentIds
    /\ comments[c].is_visible # visible
    /\ comments' = [comments EXCEPT ![c].is_visible = visible]
    /\ resp' = NoResp
    /\ UNCHANGED <<posts, outbox, request>>

----------------------------------------------------------------------------
(* The public views.                                                       *)

(* PostSitemap.items *)
Sitemap ==
    /\ \E items \in PublishedAll :
          resp' = [Http200("sitemap", <<>>) EXCEPT !.posts = items]
    /\ UNCHANGED <<posts, comments, outbox, request>>

(* post.get_absolute_url(), as the feed, the sitemap and the templates     *)
(* call it for a post they list.                                           *)
GetAbsoluteUrl(p) ==
    /\ p \in PostIds
    /\ resp' = [Http200("get_absolute_url", <<p>>) EXCEPT
                   !.post = p, !.url = get_absolute_url(p)]
    /\ UNCHANGED <<posts, comments, outbox, request>>

(* LatestPostsFeed.items *)
LatestPostsFeed ==
    /\ \E items \in Ordered(PublishedIds, Newest, FeedLimit) :
          resp' = [Http200("feed", <<>>) EXCEPT !.posts = items]
    /\ UNCHANGED <<posts, comments, outbox, request>>

(* blog_tags.total_posts *)
total_posts ==
    /\ resp' = [Http200("total_posts", <<>>) EXCEPT
                   !.number = Cardinality(PublishedIds)]
    /\ UNCHANGED <<posts, comments, outbox, request>>

(* blog_tags.show_latest_posts *)
show_latest_posts(count) ==
    /\ \E latest_posts \in Ordered(PublishedIds, Newest, count) :
          resp' = [Http200("show_latest_posts", <<count>>) EXCEPT
                      !.posts = latest_posts]
    /\ UNCHANGED <<posts, comments, outbox, request>>

(* blog_tags.get_most_commented_posts: Count('comments') counts every      *)
(* comment of the post, hidden ones included.                              *)
get_most_commented_posts(count) ==
    LET key == [i \in PostIds |->
                   <<Cardinality({c \in CommentIds : comments[c].post = i}),
                     Stamp(posts[i].publication_date)>>]
    IN  /\ \E most \in Ordered(PublishedIds, key, count) :
              resp' = [Http200("get_most_commented_posts", <<count>>) EXCEPT
                          !.posts = most]
        /\ UNCHANGED <<posts, comments, outbox, request>>

(* views.post_detail *)
PostDetail(year, month, day, slug) ==
    LET req == <<year, month, day, slug>>
        found == DetailMatches(year, month, day, slug)
    IN  /\ IF found = {} THEN resp' = Http404("post_detail", req)
           ELSE IF Cardinality(found) > 1
                THEN resp' = Http500("post_detail", req)
                ELSE LET post == CHOOSE i \in found : TRUE IN
                     \E cs \in VisibleComments(post), similar \in SimilarPosts(post) :
                        resp' = [Http200("post_detail", req) EXCEPT
                                    !.post = post, !.comments = cs,
                                    !.similar = similar]
        /\ UNCHANGED <<posts, comments, outbox, request>>

(* views.post_share; mail_ok is FALSE where send_mail raises. *)
PostShare(method, post_id, form, mail_ok) ==
    LET req == <<method, post_id, form>>
        post == GetByIdOr404(post_id)
    IN  IF post = 0
        THEN /\ resp' = Http404("post_share", req)
             /\ UNCHANGED <<posts, comments, outbox, request>>
        ELSE IF method = "POST" /\ EmailPostFormValid(form)
             THEN /\ Len(comments) + Len(outbox) < MaxWrites
                  /\ IF mail_ok
                     THEN /\ outbox' = Append(outbox,
                                 RecommendationEmail(post, form, get_absolute_url(post)))
                          /\ resp' = [Http200("post_share", req) EXCEPT
                                         !.post = post, !.form_valid = TRUE,
                                         !.sent = TRUE]
                     ELSE /\ outbox' = outbox
                          /\ resp' = Http500("post_share", req)
                  /\ UNCHANGED <<posts, comments, request>>
             ELSE /\ mail_ok
                  /\ resp' = [Http200("post_share", req) EXCEPT
                                 !.post = post, !.sent = FALSE]
                  /\ UNCHANGED <<posts, comments, outbox, request>>

(* comment.save() that writes over the newest row instead of inserting. *)
SaveCommentOverwrite(cs, row) ==
    IF cs = <<>> THEN <<row>> ELSE [cs EXCEPT ![Len(cs)] = row]

(* comment.save() of a new Comment: an INSERT. *)
SaveComment(cs, row) == Append(cs, row)

(* views.post_comment under @require_POST *)
PostComment(method, post_id, form) ==
    LET req == <<method, post_id, form>>
        post == GetByIdOr404(post_id)
    IN  IF method # "POST"
        THEN /\ resp' = Http405("post_comment", req)
             /\ UNCHANGED <<posts, comments, outbox, request>>
        ELSE IF post = 0
             THEN /\ resp' = Http404("post_comment", req)
                  /\ UNCHANGED <<posts, comments, outbox, request>>
             ELSE IF CommentFormValid(form)
                  THEN /\ Len(comments) + Len(outbox) < MaxWrites
                       /\ comments' = SaveComment(comments,
                              [post |-> post, name |-> form.name,
                               email |-> form.email, body |-> form.body,
                               created_at |-> Len(comments) + 1,
                               is_visible |-> TRUE])
                       /\ resp' = [Http200("post_comment", req) EXCEPT
                                      !.post = post, !.form_valid = TRUE,
                                      !.comment = Len(comments) + 1]
                       /\ UNCHANGED <<posts, outbox, request>>
                  ELSE /\ resp' = [Http200("post_comment", req) EXCEPT
                                      !.post = post]
                       /\ UNCHANGED <<posts, comments, outbox, request>>

(* views.post_search; query.present is 'query' in request.GET. *)
PostSearch(query) ==
    /\ IF query.present /\ SearchFormValid(query.text)
       THEN \E results \in SearchResults(query.text) :
               resp' = [Http200("post_search", query) EXCEPT
                           !.form_valid = TRUE, !.posts = results]
       ELSE resp' = Http200("post_search", query)
    /\ UNCHANGED <<posts, comments, outbox, request>>

(* services.paginate_queryset over Post.published.all() *)
PaginateQueryset(param) ==
    /\ \E qs \in PublishedAll :
          LET page == paginate_queryset(param, qs, ServicePerPage) IN
          resp' = IF page.kind = "Page"
                  THEN [Http200("paginate_queryset", <<param, "">>) EXCEPT
                           !.posts = page.items, !.number = page.number]
                  ELSE Http500("paginate_queryset", <<param, "">>)
    /\ request' = NoParam
    /\ UNCHANGED <<posts, comments, outbox>>

(* post_list.filter(tags__in=[tag]) *)
TaggedWith(tag) == {i \in PublishedIds : tag \in posts[i].tags}

(* views.post_list; tag_slug is "" where the route gives none. *)
PostList(param, tag_slug) ==
    LET req == <<param, tag_slug>> IN
    /\ IF tag_slug # "" /\ tag_slug \notin ExistingTags
       THEN resp' = Http404("post_list", req)
       ELSE LET rows == IF tag_slug # "" THEN TaggedWith(tag_slug)
                        ELSE PublishedIds
            IN  \E qs \in Ordered(rows, Newest, Cardinality(rows)) :
                   LET page == PostListPage(param, qs) IN
                   resp' = IF page.kind = "Page"
                           THEN [Http200("post_list", req) EXCEPT
                                    !.posts = page.items, !.number = page.number]
                           ELSE Http500("post_list", req)
    /\ request' = NoParam
    /\ UNCHANGED <<posts, comments, outbox>>

(* views.PostListView, the view routed at blog/ *)
PostListView(param) ==
    /\ \E qs \in PublishedAll :
          LET page == ListViewPage(param, qs, ViewPaginateBy) IN
          resp' = IF page.kind = "Page"
                  THEN [Http200("PostListView", <<param, "">>) EXCEPT
                           !.posts = page.items, !.number = page.number]
                  ELSE Http404("PostListView", <<param, "">>)
    /\ request' = NoParam
    /\ UNCHANGED <<posts, comments, outbox>>

----------------------------------------------------------------------------
(* Spec: posts are created with either status and republished or          *)
(* withdrawn in the admin; readers share them and comment on them.         *)

(* A request that is not a POST carries no form data. *)
NoShareForm == [name |-> 0, email |-> "", to |-> "", comments |-> 0]
NoCommentForm == [name |-> 0, email |-> "", body |-> 0]

ShareRequest(forms) ==
    \/ \E id \in 1..(Len(posts) + 1) : PostShare("GET", id, NoShareForm, TRUE)
    \/ \E id \in 1..(Len(posts) + 1), f \in forms, ok \in BOOLEAN :
          PostShare("POST", id, f, ok)

CommentRequest(forms) ==
    \/ \E id \in 1..(Len(posts) + 1) : PostComment("GET", id, NoCommentForm)
    \/ \E id \in 1..(Len(posts) + 1), f \in forms : PostComment("POST", id, f)

ShareForms ==
    {[name |-> n, email |-> "ann@example.com", to |-> t, comments |-> 0] :
        n \in {1}, t \in {"bob", "bob@example.com"}}

CommentForms ==
    {[name |-> 1, email |-> e, body |-> 1] : e \in {"", "ann@example.com"}}

Init ==
    /\ posts = <<>>
    /\ comments = <<>>
    /\ outbox = <<>>
    /\ resp = NoResp
    /\ request = NoParam

(* The detail page of post p, as its get_absolute_url links to it. *)
VisitPost(p) ==
    PostDetail(posts[p].publication_date[1], posts[p].publication_date[2],
               posts[p].publication_date[3], posts[p].slug)

NewPost(status) ==
    /\ Len(posts) < MaxPosts
    /\ CreatePost(status, Len(posts) + 1, Now(Len(posts) + 1), {}, NoText)

Next ==
    \/ \E st \in Status : NewPost(st)
    \/ \E p \in PostIds, st \in Status : AdminSetStatus(p, st)
    \/ Sitemap
    \/ \E p \in PostIds : VisitPost(p)
    \/ ShareRequest(ShareForms)
    \/ CommentRequest(CommentForms)

Spec == Init /\ [][Next]_vars

----------------------------------------------------------------------------
(* SpecComment: comment submissions with every kind of form, and the       *)
(* moderation of comments in the admin.                                    *)

AllCommentForms ==
    {[name |-> n, email |-> e, body |-> b] :
        n \in {0, CommentNameMax, CommentNameMax + 1},
        e \in {"", "ann@example.com"},
        b \in {0, 1}}

NextComment ==
    \/ \E st \in Status : NewPost(st)
    \/ \E c \in CommentIds, v \in BOOLEAN : AdminSetVisible(c, v)
    \/ \E p \in PostIds : VisitPost(p)
    \/ CommentRequest(AllCommentForms)

SpecComment == Init /\ [][NextComment]_vars

----------------------------------------------------------------------------
(* SpecShare: share requests with every kind of form and both outcomes of  *)
(* the mail transport.                                                     *)

AllShareForms ==
    {[name |-> n, email |-> e, to |-> t, comments |-> c] :
        n \in {0, ShareNameMax, ShareNameMax + 1},
        e \in {"ann", "ann@example.com"},
        t \in {"", "bob@example.com"},
        c \in {0}}

NextShare ==
    \/ \E st \in Status : NewPost(st)
    \/ ShareRequest(AllShareForms)

SpecShare == Init /\ [][NextShare]_vars

----------------------------------------------------------------------------
(* SpecPage: a database of drafts and published posts, created one after   *)
(* the other, and one list request with a page parameter, served by each   *)
(* of the three paginating handlers.                                       *)

DraftCounts == {0, 1}
TagSlugs == {"", "x", "y"}

(* Post i of a database of d drafts followed by published posts. *)
PagePost(i, d) ==
    Post(IF i <= d THEN DRAFT ELSE PUBLISHED, i, Now(i),
         IF i % 2 = 0 THEN {"x"} ELSE {}, NoText)

InitPage ==
    /\ \E n \in 0..MaxItems, d \in DraftCounts :
          posts = [i \in 1..(d + n) |-> PagePost(i, d)]
    /\ comments = <<>>
    /\ outbox = <<>>
    /\ resp = NoResp
    /\ request \in PageParams

NextPage ==
    \/ PaginateQueryset(request)
    \/ \E tag_slug \in TagSlugs : PostList(request, tag_slug)
    \/ PostListView(request)

SpecPage == InitPage /\ [][NextPage]_vars

----------------------------------------------------------------------------
(* SpecLookup: posts created with chosen slugs and publication dates, and  *)
(* detail requests for every date and slug.                                *)

Slugs == {1, 2}
LookupDates == {<<2024, 1, 1, 0>>, <<2024, 1, 2, 0>>, <<2024, 2, 1, 0>>, <<2023, 1, 1, 0>>}
Years == {2023, 2024}
Months == {1, 2}
Days == {1, 2}

NewDatedPost(status, slug, date) ==
    /\ Len(posts) < MaxLookupPosts
    /\ CreatePost(status, slug, date, {}, NoText)

NewAdminPost(status, slug, date) ==
    /\ Len(posts) < MaxLookupPosts
    /\ AdminAddPost(status, slug, date)

NextLookup ==
    \/ \E st \in Status, slug \in Slugs, date \in LookupDates :
          NewDatedPost(st, slug, date)
    \/ \E st \in Status, slug \in Slugs, date \in LookupDates :
          NewAdminPost(st, slug, date)
    \/ \E y \in Years, m \in Months, d \in Days, slug \in Slugs :
          PostDetail(y, m, d, slug)

SpecLookup == Init /\ [][NextLookup]_vars

----------------------------------------------------------------------------
(* SpecSearch: posts created with chosen texts, and search requests.       *)

SearchTexts ==
    {[w \in Words |-> IF w = "django" THEN d ELSE p] : d \in 0..MaxCount, p \in 0..1}

QueryTexts == UNION {[1..n -> Words \cup {Blank}] : n \in 0..2}
Queries ==
    {[present |-> FALSE, text |-> <<>>]} \cup
    {[present |-> TRUE, text |-> t] : t \in QueryTexts}

NewTextPost(status, text) ==
    /\ Len(posts) < MaxSearchPosts
    /\ CreatePost(status, Len(posts) + 1, Now(Len(posts) + 1), {}, text)

NextSearch ==
    \/ \E st \in Status, text \in SearchTexts : NewTextPost(st, text)
    \/ \E q \in Queries : PostSearch(q)

SpecSearch == Init /\ [][NextSearch]_vars

----------------------------------------------------------------------------
(* SpecRelated: a database of tagged posts, and the detail page of one of   *)
(* them.                                                                   *)
(* What post_detail computes from the tags does not depend on the order in *)
(* which the posts were created, so the databases list their posts in a    *)
(* fixed order of kinds.                                                   *)

Day1 == <<2024, 1, 1, 0>>
Day2 == <<2024, 1, 2, 0>>

RelKinds ==
    << [status |-> PUBLISHED, tags |-> {},         date |-> Day1],
       [status |-> PUBLISHED, tags |-> {"x"},      date |-> Day1],
       [status |-> PUBLISHED, tags |-> {"x"},      date |-> Day2],
       [status |-> PUBLISHED, tags |-> {"y"},      date |-> Day1],
       [status |-> PUBLISHED, tags |-> {"x", "y"}, date |-> Day1],
       [status |-> PUBLISHED, tags |-> {"x", "y"}, date |-> Day2],
       [status |-> DRAFT,     tags |-> {"x", "y"}, date |-> Day2] >>

(* The non-decreasing sequences of n kinds, none below lo. *)
RECURSIVE KindSeqs(_, _)
KindSeqs(n, lo) ==
    IF n = 0 THEN {<<>>}
    ELSE UNION {{<<k>> \o rest : rest \in KindSeqs(n - 1, k)} :
                k \in lo..Len(RelKinds)}

RelDatabase(kinds) ==
    [i \in 1..Len(kinds) |->
        Post(RelKinds[kinds[i]].status, i, RelKinds[kinds[i]].date,
             RelKinds[kinds[i]].tags, NoText)]

InitRelated ==
    /\ \E n \in 0..MaxRelPosts : \E kinds \in KindSeqs(n, 1) :
          posts = RelDatabase(kinds)
    /\ comments = <<>>
    /\ outbox = <<>>
    /\ resp = NoResp
    /\ request = NoParam

(* One detail request is served in each database. *)
NextRelated == resp = NoResp /\ \E p \in PostIds : VisitPost(p)

SpecRelated == InitRelated /\ [][NextRelated]_vars

----------------------------------------------------------------------------
(* SpecPublic: every public operation, next to the creation of posts and   *)
(* the two admin collaborators.                                            *)

PublicPageParams == {NoParam, [present |-> TRUE, text |-> <<"2">>]}
PublicTagSlugs == {"", "x"}
PublicQueries ==
    {[present |-> FALSE, text |-> <<>>],
     [present |-> TRUE, text |-> <<"django">>]}

NextPublic ==
    \/ \E st \in Status : NewPost(st)
    \/ \E p \in PostIds, st \in Status : AdminSetStatus(p, st)
    \/ \E c \in CommentIds, v \in BOOLEAN : AdminSetVisible(c, v)
    \/ \E param \in PublicPageParams, tag_slug \in PublicTagSlugs :
          PostList(param, tag_slug)
    \/ \E param \in PublicPageParams : PostListView(param)
    \/ \E p \in PostIds : VisitPost(p)
    \/ ShareRequest(ShareForms)
    \/ CommentRequest(CommentForms)
    \/ \E q \in PublicQueries : PostSearch(q)
    \/ LatestPostsFeed
    \/ Sitemap
    \/ total_posts
    \/ show_latest_posts(TagCount)
    \/ get_most_commented_posts(TagCount)

SpecPublic == Init /\ [][NextPublic]_vars

----------------------------------------------------------------------------
(* SpecThread: two published posts and the comments submitted on them so   *)
(* far, some of them hidden in the admin; then further submissions,        *)
(* visibility toggles and detail requests.                                 *)

ThreadPosts ==
    <<Post(PUBLISHED, 1, Now(1), {}, NoText),
      Post(PUBLISHED, 2, Now(2), {}, NoText)>>

(* The comments of a database: each on one of the posts, visible or not,   *)
(* saved at the same instant as the one before it (same) or later.         *)
ThreadRows(n) ==
    [1..n -> [post : DOMAIN ThreadPosts, is_visible : BOOLEAN, same : BOOLEAN]]

(* auto_now_add: the clock reading at the save of row i. *)
CreatedAt(rows, i) == 1 + Cardinality({j \in 2..i : ~rows[j].same})

ThreadComments(rows) ==
    [i \in DOMAIN rows |->
        [post |-> rows[i].post, name |-> 1, email |-> "ann@example.com",
         body |-> 1, created_at |-> CreatedAt(rows, i),
         is_visible |-> rows[i].is_visible]]

InitThread ==
    /\ posts = ThreadPosts
    /\ \E n \in 0..MaxThread : \E rows \in ThreadRows(n) :
          comments = ThreadComments(rows)
    /\ outbox = <<>>
    /\ resp = NoResp
    /\ request = NoParam

ThreadForms == {[name |-> 1, email |-> "ann@example.com", body |-> 1]}

NextThread ==
    \/ \E c \in CommentIds, v \in BOOLEAN : AdminSetVisible(c, v)
    \/ \E p \in PostIds : VisitPost(p)
    \/ CommentRequest(ThreadForms)

SpecThread == InitThread /\ [][NextThread]_vars

----------------------------------------------------------------------------
(* SpecUrl: posts created with chosen slugs and publication dates, and the *)
(* absolute URL of each.                                                   *)

UrlDates ==
    {<<2024, 1, 5, 0>>, <<2024, 12, 31, 1>>, <<2023, 5, 12, 2>>,
     <<1999, 10, 10, 3>>}

NewUrlPost(status, slug, date) ==
    /\ Len(posts) < MaxUrlPosts
    /\ CreatePost(status, slug, date, {}, NoText)

NextUrl ==
    \/ \E st \in Status, slug \in Slugs, date \in UrlDates :
          NewUrlPost(st, slug, date)
    \/ \E p \in PostIds : GetAbsoluteUrl(p)

SpecUrl == Init /\ [][NextUrl]_vars

----------------------------------------------------------------------------
(* Properties of Spec.                                                     *)

Range(seq) == {seq[i] : i \in DOMAIN seq}
NoDuplicates(seq) == Cardinality(Range(seq)) = Len(seq)

(* C1: whatever posts were created, the published query view returns       *)
(* exactly the posts whose status is Published, each once: every Published *)
(* post, no Draft post, N results for N Published and M Draft posts, and   *)
(* the empty list when there are no posts.                                 *)
C1_PublishedViewExact ==
    resp.view = "sitemap" =>
        /\ Range(resp.posts) = {i \in DOMAIN posts : posts[i].status = "PB"}
        /\ \A i \in DOMAIN posts : posts[i].status = "DF" => i \notin Range(resp.posts)
        /\ Len(resp.posts) = Cardinality({i \in DOMAIN posts : posts[i].status = "PB"})
        /\ (posts = <<>> => resp.posts = <<>>)

C1_Witness ==
    /\ resp.view = "sitemap"
    /\ Len(resp.posts) >= 1
    /\ \E i \in DOMAIN posts : posts[i].status = "DF"

(* C6: a share request, or a comment submission, for an identifier that is *)
(* not the id of a Published post ends in not-found, dispatches no email   *)
(* and creates no comment; and every email dispatched and every comment    *)
(* created is for a post that is Published at the time of the request.     *)
C6_Step ==
    /\ \A view \in {"post_share", "post_comment"} :
          (/\ resp'.view = view
           /\ resp'.req[2] \notin {i \in DOMAIN posts : posts[i].status = "PB"})
          => /\ outbox' = outbox
             /\ comments' = comments
             /\ (view = "post_share" \/ resp'.req[1] = "POST") => resp'.code = 404
    /\ outbox' # outbox =>
          /\ Len(outbox') = Len(outbox) + 1
          /\ SubSeq(outbox', 1, Len(outbox)) = outbox
          /\ outbox'[Len(outbox')].post \in DOMAIN posts
          /\ posts[outbox'[Len(outbox')].post].status = "PB"
    /\ Len(comments') > Len(comments) =>
          /\ comments'[Len(comments')].post \in DOMAIN posts
          /\ posts[comments'[Len(comments')].post].status = "PB"

C6_DraftsNeverSharedOrCommented == [][C6_Step]_vars

C6_Witness ==
    /\ resp.view = "post_share"
    /\ resp.code = 404
    /\ resp.req[1] = "POST"
    /\ resp.req[2] \in DOMAIN posts
    /\ posts[resp.req[2]].status = "DF"
    /\ EmailPostFormValid(resp.req[3])
    /\ outbox # <<>>
    /\ comments # <<>>

----------------------------------------------------------------------------
(* Properties of SpecComment.                                              *)

IsPublished(p) == p \in DOMAIN posts /\ posts[p].status = "PB"

VisibleCount(cs, p) ==
    Cardinality({c \in DOMAIN cs : cs[c].post = p /\ cs[c].is_visible})

(* C7: a comment submission on a Published post with a missing or invalid  *)
(* required field (name, email, body) leaves the comments unchanged and    *)
(* returns the form with errors; a valid one persists exactly one new      *)
(* comment, attached to the looked-up post and visible, so that post's     *)
(* visible-comment count grows by one and no other comment changes.        *)
C7_Step ==
    (/\ resp'.view = "post_comment"
     /\ resp'.req[1] = "POST"
     /\ IsPublished(resp'.req[2]))
    => LET p == resp'.req[2]
           f == resp'.req[3]
           fields_ok == /\ f.name >= 1 /\ f.name <= 80
                        /\ f.email = "ann@example.com"
                        /\ f.body >= 1
       IN  /\ resp'.code = 200
           /\ resp'.post = p
           /\ fields_ok =>
                 /\ Len(comments') = Len(comments) + 1
                 /\ SubSeq(comments', 1, Len(comments)) = comments
                 /\ comments'[Len(comments')].post = p
                 /\ comments'[Len(comments')].is_visible = TRUE
                 /\ VisibleCount(comments', p) = VisibleCount(comments, p) + 1
                 /\ \A q \in DOMAIN posts \ {p} :
                       VisibleCount(comments', q) = VisibleCount(comments, q)
                 /\ resp'.form_valid
                 /\ resp'.comment = Len(comments')
           /\ ~fields_ok =>
                 /\ comments' = comments
                 /\ ~resp'.form_valid
                 /\ resp'.comment = 0

C7_CommentSubmission == [][C7_Step]_vars

C7_Witness ==
    /\ resp.view = "post_comment"
    /\ resp.comment = 2
    /\ comments[1].post = comments[2].post
    /\ ~comments[1].is_visible
    /\ comments[2].is_visible
    /\ Len(posts) >= 2

----------------------------------------------------------------------------
(* Properties of SpecShare.                                                *)

FieldsOfShareOk(f) ==
    /\ f.name >= 1 /\ f.name <= 25
    /\ f.email = "ann@example.com"
    /\ f.to = "bob@example.com"

Dispatched(p, f) ==
    /\ Len(outbox') = Len(outbox) + 1
    /\ SubSeq(outbox', 1, Len(outbox)) = outbox
    /\ outbox'[Len(outbox')].post = p
    /\ outbox'[Len(outbox')].to = f.to

(* C8 as claimed: every share request for a Published post renders the     *)
(* page, with sent true exactly when it was a POST with valid fields whose *)
(* message was dispatched, and sent false for a GET, an invalid form or a  *)
(* failed dispatch.                                                        *)
C8_ClaimedStep ==
    (resp'.view = "post_share" /\ IsPublished(resp'.req[2]))
    => /\ resp'.code = 200
       /\ resp'.sent <=> /\ resp'.req[1] = "POST"
                         /\ FieldsOfShareOk(resp'.req[3])
                         /\ Dispatched(resp'.req[2], resp'.req[3])
       /\ ~resp'.sent => outbox' = outbox

C8_SentFlagAsClaimed == [][C8_ClaimedStep]_vars

(* C8, amended: sent is true exactly when the request was a POST with      *)
(* valid name, sender email and recipient email and send_mail returned;    *)
(* a GET or an invalid form renders the page with sent false and           *)
(* dispatches nothing; a dispatch that fails ends the request in a server  *)
(* error with no page rendered; no request dispatches more than one        *)
(* message.                                                                *)
C8_Step ==
    (resp'.view = "post_share" /\ IsPublished(resp'.req[2]))
    => LET p == resp'.req[2]
           f == resp'.req[3]
       IN  IF resp'.req[1] = "POST" /\ FieldsOfShareOk(f)
           THEN \/ resp'.code = 200 /\ resp'.sent /\ Dispatched(p, f)
                \/ resp'.code = 500 /\ ~resp'.sent /\ outbox' = outbox
           ELSE resp'.code = 200 /\ ~resp'.sent /\ outbox' = outbox

C8_SentFlag == [][C8_Step]_vars

C8_Witness ==
    /\ resp.view = "post_share"
    /\ resp.code = 200
    /\ resp.sent
    /\ resp.req[3].comments = 0
    /\ outbox # <<>>
    /\ outbox[Len(outbox)].post = resp.req[2]

----------------------------------------------------------------------------
(* Properties of SpecPage.  The posts of its databases are published in    *)
(* the order of their ids, so a result set lists its rows by descending id.*)

DescendingIds(S) ==
    [k \in 1..Cardinality(S) |->
        CHOOSE i \in S : Cardinality({j \in S : j > i}) = k - 1]

(* The result set a list response paginates: the Published posts, those    *)
(* carrying the tag when the request names one.                            *)
ResultSet(r) ==
    DescendingIds({i \in DOMAIN posts :
                      /\ posts[i].status = "PB"
                      /\ r.req[2] = "" \/ r.req[2] \in posts[i].tags})

(* Items first..last of a result set, counted from 1. *)
Items(rs, first, last) == [k \in 1..(last - first + 1) |-> rs[first + k - 1]]

(* C2: pagination with fallback, in paginate_queryset and in post_list,    *)
(* never fails on a non-empty result set of n items: a token that is not   *)
(* an integer gives page 1, an integer beyond the last page gives the last *)
(* page, an in-range p gives page p, and page p holds items                *)
(* (p-1)*5+1 .. min(p*5, n) in the order of the result set; for 12 items   *)
(* "abc" gives items 1-5, "99" items 11-12 and "2" items 6-10.             *)
C2_PaginationFallback ==
    (/\ resp.view \in {"paginate_queryset", "post_list"}
     /\ ResultSet(resp) # <<>>)
    => LET rs == ResultSet(resp)
           n == Len(rs)
           last == (n + 4) \div 5
           token == resp.req[1]
           int == PageNumber(token)
           p == resp.number
       IN  /\ resp.code = 200
           /\ ~int.ok => p = 1
           /\ int.ok /\ int.val > last => p = last
           /\ int.ok /\ int.val >= 1 /\ int.val <= last => p = int.val
           /\ p >= 1 /\ p <= last
           /\ resp.posts = Items(rs, (p - 1) * 5 + 1, Min(p * 5, n))
           /\ n = 12 /\ token.text = <<"a", "b", "c">> => resp.posts = Items(rs, 1, 5)
           /\ n = 12 /\ token.text = <<"9", "9">> => resp.posts = Items(rs, 11, 12)
           /\ n = 12 /\ token.text = <<"2">> => resp.posts = Items(rs, 6, 10)

C2_Witness ==
    /\ resp.view = "post_list"
    /\ resp.req[1].text = <<"9", "9">>
    /\ resp.req[2] = ""
    /\ Len(ResultSet(resp)) = 12
    /\ resp.number = 3
    /\ Len(resp.posts) = 2

(* C3: the list routed at blog/ answers every value of the page parameter  *)
(* (absent, not an integer, out of range) with a page of at most 5         *)
(* Published posts, never with not-found or another error.                 *)
C3_RoutedListNeverFails ==
    resp.view = "PostListView" =>
        /\ resp.code = 200
        /\ Len(resp.posts) <= 5
        /\ \A k \in DOMAIN resp.posts : posts[resp.posts[k]].status = "PB"

----------------------------------------------------------------------------
(* Properties of SpecRelated.                                              *)

Shared(p, i) == Cardinality(posts[i].tags \cap posts[p].tags)

(* The candidates for the related posts of p: the other Published posts    *)
(* sharing a tag with p.                                                   *)
RelatedTo(p) ==
    {i \in DOMAIN posts : i # p /\ posts[i].status = "PB" /\ Shared(p, i) >= 1}

(* a ranks strictly higher than b among the posts related to p. *)
RanksHigher(p, a, b) ==
    \/ Shared(p, a) > Shared(p, b)
    \/ /\ Shared(p, a) = Shared(p, b)
       /\ Stamp(posts[a].publication_date) > Stamp(posts[b].publication_date)

(* C4: the related posts post_detail shows for a post P are Published      *)
(* posts other than P sharing a tag with P, at most 4 of them, each once,  *)
(* ordered by the number of tags shared with P descending and then by      *)
(* publication date descending; a candidate is left out only when the list *)
(* is full, and none left out ranks strictly higher than one listed.       *)
C4_RelatedPosts ==
    (resp.view = "post_detail" /\ resp.code = 200)
    => LET p == resp.post
           list == resp.similar
       IN  /\ Range(list) \subseteq RelatedTo(p)
           /\ NoDuplicates(list)
           /\ Len(list) <= 4
           /\ \A j, k \in DOMAIN list : j < k => ~RanksHigher(p, list[k], list[j])
           /\ \A c \in RelatedTo(p) \ Range(list) :
                 /\ Len(list) = 4
                 /\ \A k \in DOMAIN list : ~RanksHigher(p, c, list[k])

C4_Witness ==
    /\ resp.view = "post_detail"
    /\ resp.code = 200
    /\ Len(resp.similar) = 4
    /\ RelatedTo(resp.post) \ Range(resp.similar) # {}
    /\ Shared(resp.post, resp.similar[1]) = 2
    /\ Shared(resp.post, resp.similar[4]) = 1
    /\ \E i \in DOMAIN posts : posts[i].status = "DF" /\ Shared(resp.post, i) = 2

----------------------------------------------------------------------------
(* Properties of SpecLookup.                                               *)

(* The Published posts with the requested slug and year, month and day of  *)
(* publication.                                                            *)
Requested(req) ==
    {i \in DOMAIN posts :
        /\ posts[i].status = "PB"
        /\ posts[i].slug = req[4]
        /\ <<posts[i].publication_date[1], posts[i].publication_date[2],
             posts[i].publication_date[3]>> = <<req[1], req[2], req[3]>>}

(* C5: post_detail returns a post only if it is Published, has the         *)
(* requested slug and was published on the requested year, month and day;  *)
(* a request no such post answers (a Draft, no post, a mismatch of the     *)
(* slug or of any date component) is not-found.                            *)
C5_DetailLookup ==
    resp.view = "post_detail" =>
        /\ resp.code = 200 => resp.post \in Requested(resp.req)
        /\ Requested(resp.req) = {} <=> resp.code = 404
        /\ Cardinality(Requested(resp.req)) = 1 => resp.code = 200

C5_Witness ==
    /\ resp.view = "post_detail"
    /\ resp.code = 404
    /\ \E i \in DOMAIN posts :
          /\ posts[i].status = "DF"
          /\ posts[i].slug = resp.req[4]
          /\ posts[i].publication_date[1] = resp.req[1]
          /\ posts[i].publication_date[2] = resp.req[2]
          /\ posts[i].publication_date[3] = resp.req[3]
    /\ \E i \in DOMAIN posts :
          /\ posts[i].status = "PB"
          /\ posts[i].slug = resp.req[4]
          /\ posts[i].publication_date[1] = resp.req[1]
          /\ posts[i].publication_date[2] = resp.req[2]
          /\ posts[i].publication_date[3] # resp.req[3]

----------------------------------------------------------------------------
(* Properties of SpecSearch.                                               *)

(* Post i matches the query text: each of its words occurs in the title or *)
(* the body.                                                               *)
Matches(i, text) ==
    \A k \in DOMAIN text : text[k] = " " \/ posts[i].text[text[k]] > 0

(* C9: post_search returns an empty result set, not all posts, when the    *)
(* query parameter is absent or present but empty; a non-empty result is   *)
(* returned only for a non-empty query, and holds only Published posts     *)
(* whose title or body matches it.                                         *)
C9_EmptyQueryEmptyResult ==
    resp.view = "post_search" =>
        /\ (~resp.req.present \/ resp.req.text = <<>>) => resp.posts = <<>>
        /\ resp.posts # <<>> =>
              /\ resp.req.present
              /\ resp.req.text # <<>>
              /\ \A k \in DOMAIN resp.posts :
                    /\ posts[resp.posts[k]].status = "PB"
                    /\ Matches(resp.posts[k], resp.req.text)

C9_Witness ==
    /\ resp.view = "post_search"
    /\ resp.req.present
    /\ resp.req.text = <<>>
    /\ resp.posts = <<>>
    /\ \E i \in DOMAIN posts : posts[i].status = "PB"

(* The relevance of post i for a query text, as a rank over the title and  *)
(* the body scores it: the occurrences of the words of the query.          *)
RECURSIVE SumOver(_, _)
SumOver(S, i) ==
    IF S = {} THEN 0
    ELSE LET w == CHOOSE x \in S : TRUE
         IN  posts[i].text[w] + SumOver(S \ {w}, i)

Rank(i, text) == SumOver(Range(text) \ {" "}, i)

NonEmptyQuery(r) == r.req.present /\ Range(r.req.text) \ {" "} # {}

----------------------------------------------------------------------------
(* Properties of SpecUrl.                                                  *)

(* The text t is the decimal numeral of n: digits only, no sign, no        *)
(* leading zero, and int(t) = n.                                           *)
Numeral(t, n) ==
    /\ t # <<>>
    /\ \A i \in 1..Len(t) :
          t[i] \in {"0", "1", "2", "3", "4", "5", "6", "7", "8", "9"}
    /\ (Len(t) > 1 => t[1] # "0")
    /\ ParseInt(t) = [ok |-> TRUE, val |-> n]

(* C11: the absolute URL of a post with publication date (Y, M, D) and     *)
(* slug S is the path /blog/Y/M/D/S/: the prefix blog, then the year, the  *)
(* month and the day as plain decimal numerals, in that order, then the    *)
(* slug, and nothing else.                                                 *)
C11_AbsoluteUrl ==
    resp.view = "get_absolute_url" =>
        LET d == posts[resp.post].publication_date
            u == resp.url
        IN  /\ Len(u) = 5
            /\ u[1] = "blog"
            /\ Numeral(u[2], d[1])
            /\ Numeral(u[3], d[2])
            /\ Numeral(u[4], d[3])
            /\ u[5] = posts[resp.post].slug

C11_Witness ==
    /\ resp.view = "get_absolute_url"
    /\ posts[resp.post].publication_date = <<2024, 1, 5, 0>>
    /\ resp.url = <<"blog", <<"2", "0", "2", "4">>, <<"1">>, <<"5">>,
                    posts[resp.post].slug>>
    /\ \E i \in DOMAIN posts : posts[i].publication_date[2] = 12

----------------------------------------------------------------------------
(* Properties of SpecLookup.                                               *)

(* C12: in every reachable state no two distinct posts have the same slug  *)
(* and the same publication date at day granularity, and so no detail      *)
(* lookup by year, month, day and slug matches more than one post: none    *)
(* ends in the server error of a multiple match.                           *)
C12_SlugDateUnique ==
    /\ \A i, j \in DOMAIN posts :
          (/\ i # j
           /\ posts[i].slug = posts[j].slug
           /\ posts[i].publication_date[1] = posts[j].publication_date[1]
           /\ posts[i].publication_date[2] = posts[j].publication_date[2])
          => posts[i].publication_date[3] # posts[j].publication_date[3]
    /\ ~(resp.view = "post_detail" /\ resp.code = 500)

----------------------------------------------------------------------------
(* Properties of SpecPublic.                                               *)

PublicViews ==
    {"post_list", "PostListView", "post_detail", "post_share",
     "post_comment", "post_search", "feed", "sitemap", "total_posts",
     "show_latest_posts", "get_most_commented_posts"}

(* C13: a public operation leaves the set of posts and every post's status *)
(* as they were, and leaves every existing comment in place with its       *)
(* visibility flag; the one change it can make to the stored data is that  *)
(* a valid comment submission adds one new comment.                        *)
C13_Step ==
    resp'.view \in PublicViews =>
        /\ posts' = posts
        /\ \A c \in DOMAIN comments :
              c \in DOMAIN comments' /\ comments'[c] = comments[c]
        /\ comments' # comments =>
              /\ resp'.view = "post_comment"
              /\ resp'.req[1] = "POST"
              /\ resp'.form_valid
              /\ Len(comments') = Len(comments) + 1

C13_PublicOperationsFrame == [][C13_Step]_vars

C13_Witness ==
    /\ resp.view = "post_comment"
    /\ resp.form_valid
    /\ Len(comments) = 2
    /\ ~comments[1].is_visible
    /\ \E i \in DOMAIN posts : posts[i].status = "DF"

----------------------------------------------------------------------------
(* Properties of SpecThread.                                               *)

(* C14: the comments post_detail shows for a post are exactly the comments *)
(* of that post whose visibility flag is true, each once, in ascending     *)
(* order of creation time: no hidden comment and no comment of another     *)
(* post is shown, whatever submissions and visibility toggles came before. *)
C14_VisibleCommentsInOrder ==
    (resp.view = "post_detail" /\ resp.code = 200) =>
        /\ Cardinality({resp.comments[k] : k \in DOMAIN resp.comments})
               = Len(resp.comments)
        /\ {resp.comments[k] : k \in DOMAIN resp.comments}
               = {c \in DOMAIN comments :
                     comments[c].post = resp.post /\ comments[c].is_visible}
        /\ \A k, l \in DOMAIN resp.comments :
              k < l => comments[resp.comments[k]].created_at
                          <= comments[resp.comments[l]].created_at

C14_Witness ==
    /\ resp.view = "post_detail"
    /\ resp.code = 200
    /\ Len(resp.comments) = 2
    /\ comments[resp.comments[1]].created_at
          < comments[resp.comments[2]].created_at
    /\ \E c \in DOMAIN comments :
          /\ comments[c].post = resp.post
          /\ ~comments[c].is_visible
          /\ resp.comments[1] < c
          /\ c < resp.comments[2]
    /\ \E c \in DOMAIN comments : comments[c].post # resp.post

----------------------------------------------------------------------------
(* A further property of SpecPage.                                         *)

(* The text of a page token that is an integer below 1: zeros only, or a   *)
(* minus sign before digits.                                               *)
BelowOne(text) ==
    \/ text # <<>> /\ \A k \in DOMAIN text : text[k] = "0"
    \/ /\ Len(text) >= 2
       /\ text[1] = "-"
       /\ \A k \in 2..Len(text) : text[k] \in {"0", "1", "2", "9"}

(* C15: paginate_queryset is total: for every result set of n items, the   *)
(* empty one included, and every page token it returns a page and raises   *)
(* no error, and the number of the page lies between 1 and                 *)
(* max(1, ceil(n / 5)); an empty result set gives an empty page 1; and an  *)
(* integer token below 1 gives the last page, not page 1.                  *)
C15_PaginateQuerysetTotal ==
    resp.view = "paginate_queryset" =>
        LET n == Cardinality({i \in DOMAIN posts : posts[i].status = "PB"})
            last == IF n = 0 THEN 1 ELSE (n + 4) \div 5
            token == resp.req[1]
        IN  /\ resp.code = 200
            /\ resp.number >= 1
            /\ resp.number <= last
            /\ n = 0 => resp.number = 1 /\ resp.posts = <<>>
            /\ (token.present /\ BelowOne(token.text)) => resp.number = last

C15_Witness ==
    /\ resp.view = "paginate_queryset"
    /\ resp.code = 200
    /\ resp.req[1].present
    /\ resp.req[1].text = <<"-", "1">>
    /\ Cardinality({i \in DOMAIN posts : posts[i].status = "PB"}) = 12
    /\ resp.number = 3
    /\ Len(resp.posts) = 2

====
